---- MODULE Spec2Model ----
(***************************************************************************)
(* discord-guildpeek: the invite lookup (fetchInviteStatusV9,              *)
(* getInviteStatusV9), the zod schema DiscordInviteSchemaV9, the           *)
(* transformer convertInviteStatusV9 and the image locators ImageGetter    *)
(* and ImageGifgetter, as a state machine.  The lookup and the transformer  *)
(* are those of the revision with the animated locators (iconGif,          *)
(* bannerGif, avatarGif); api/v9.ts holds the same lookup without them.    *)
(* The tools extractDiscordInviteId and isResourceAvailable are modelled   *)
(* beside them.                                                            *)
(***************************************************************************)
EXTENDS Integers, Sequences, FiniteSets, TLC

(***************************************************************************)
(* JSON / JavaScript values.  Every value is a record of one shape, so     *)
(* that values of different JavaScript types can be compared:              *)
(*   t  the JavaScript type, s the string, n the number (a boolean is      *)
(*   n = 1 or 0), a the element types of an array.                         *)
(* An object is t = "object"; its members live at the member paths of the  *)
(* payload (see Paths).                                                    *)
(***************************************************************************)
JUndef == [t |-> "undefined", s |-> "", n |-> 0, a |-> <<>>]

JNull == [t |-> "null", s |-> "", n |-> 0, a |-> <<>>]

JStr(str) == [t |-> "string", s |-> str, n |-> 0, a |-> <<>>]

JNum(num) == [t |-> "number", s |-> "", n |-> num, a |-> <<>>]

JBool(b) == [t |-> "boolean", s |-> "", n |-> IF b THEN 1 ELSE 0, a |-> <<>>]

JObj == [t |-> "object", s |-> "", n |-> 0, a |-> <<>>]

JArr(elemTypes) == [t |-> "array", s |-> "", n |-> 0, a |-> elemTypes]

\* JavaScript truthiness, as used by `x ? a : b` and `x || y`.
Truthy(v) ==
    CASE v.t = "undefined" -> FALSE
      [] v.t = "null" -> FALSE
      [] v.t = "string" -> v.s # ""
      [] v.t = "number" -> v.n # 0
      [] v.t = "boolean" -> v.n = 1
      [] OTHER -> TRUE

\* What a template literal `${v}` renders.
Render(v) ==
    CASE v.t = "undefined" -> "undefined"
      [] v.t = "null" -> "null"
      [] v.t = "string" -> v.s
      [] v.t = "number" -> ToString(v.n)
      [] v.t = "boolean" -> (IF v.n = 1 THEN "true" ELSE "false")
      [] v.t = "array" -> "[array]"
      [] OTHER -> "[object Object]"

(***************************************************************************)
(* The schema (v9_schema.ts).  A field is                                  *)
(*   [name, kind, nullable, optional]                                      *)
(* kind: string | number | boolean | unknown | strings (array of string) | *)
(*       unknowns (array of unknown) | the name of an object schema.       *)
(***************************************************************************)
Fld(name, kind, nullable, optional) ==
    [name |-> name, kind |-> kind, nullable |-> nullable, optional |-> optional]

Req(name, kind) == Fld(name, kind, FALSE, FALSE)

Nullable(name, kind) == Fld(name, kind, TRUE, FALSE)

ClanSchema ==
    { Req("identity_guild_id", "string"), Req("identity_enabled", "boolean"),
      Req("tag", "string"), Req("badge", "string") }

AvatarDecorationSchema ==
    { Req("asset", "string"), Req("sku_id", "string"), Req("expires_at", "number") }

UserSchema ==
    { Req("id", "string"), Req("username", "string"), Nullable("avatar", "string"),
      Req("discriminator", "string"), Req("public_flags", "number"),
      Req("flags", "number"), Nullable("banner", "string"),
      Nullable("accent_color", "number"), Nullable("global_name", "string"),
      Fld("avatar_decoration_data", "AvatarDecorationSchema", TRUE, TRUE),
      Nullable("collectibles", "unknown"), Nullable("display_name_styles", "unknown"),
      Nullable("banner_color", "string"),
      Fld("clan", "ClanSchema", TRUE, TRUE),
      Fld("primary_guild", "ClanSchema", TRUE, TRUE) }

GuildSchema ==
    { Req("id", "string"), Req("name", "string"), Nullable("splash", "string"),
      Nullable("banner", "string"), Nullable("description", "string"),
      Nullable("icon", "string"), Req("features", "strings"),
      Req("verification_level", "number"), Nullable("vanity_url_code", "string"),
      Req("nsfw_level", "number"), Req("nsfw", "boolean"),
      Req("premium_subscription_count", "number"), Req("premium_tier", "number") }

ChannelSchema ==
    { Req("id", "string"), Req("type", "number"), Req("name", "string") }

ProfileSchema ==
    { Req("id", "string"), Req("name", "string"), Nullable("icon_hash", "string"),
      Req("member_count", "number"), Req("online_count", "number"),
      Nullable("description", "string"), Nullable("banner_hash", "string"),
      Req("game_application_ids", "strings"), Req("game_activity", "unknown"),
      Nullable("tag", "string"), Req("badge", "number"),
      Req("badge_color_primary", "string"), Req("badge_color_secondary", "string"),
      Nullable("badge_hash", "string"), Req("traits", "unknowns"),
      Req("features", "strings"), Req("visibility", "number"),
      Nullable("custom_banner_hash", "string"),
      Req("premium_subscription_count", "number"), Req("premium_tier", "number") }

DiscordInviteSchemaV9 ==
    { Req("type", "number"), Req("code", "string"), Req("inviter", "UserSchema"),
      Nullable("expires_at", "string"), Req("guild", "GuildSchema"),
      Req("guild_id", "string"), Req("channel", "ChannelSchema"),
      Req("profile", "ProfileSchema"),
      Fld("approximate_member_count", "number", FALSE, TRUE),
      Fld("approximate_presence_count", "number", FALSE, TRUE) }

ObjectKinds ==
    {"ClanSchema", "AvatarDecorationSchema", "UserSchema", "GuildSchema",
     "ChannelSchema", "ProfileSchema", "DiscordInviteSchemaV9"}

FieldsOf(kind) ==
    CASE kind = "ClanSchema" -> ClanSchema
      [] kind = "AvatarDecorationSchema" -> AvatarDecorationSchema
      [] kind = "UserSchema" -> UserSchema
      [] kind = "GuildSchema" -> GuildSchema
      [] kind = "ChannelSchema" -> ChannelSchema
      [] kind = "ProfileSchema" -> ProfileSchema
      [] kind = "DiscordInviteSchemaV9" -> DiscordInviteSchemaV9
      [] OTHER -> {}

(***************************************************************************)
(* Paths.  The decoded body is a function from member paths to values:     *)
(* "$" is the body itself, "$.guild.icon" the member icon of the member    *)
(* guild.  A member that is missing is JUndef.                             *)
(***************************************************************************)
Root == "$"

Member(path, name) == path \o "." \o name

\* The schema's members below `path`, an object of schema `kind`, as
\* records [path, parent, fld].
RECURSIVE SchemaEntries(_, _)
SchemaEntries(path, kind) ==
    UNION { {[path |-> Member(path, f.name), parent |-> path, fld |-> f]}
            \cup (IF f.kind \in ObjectKinds
                  THEN SchemaEntries(Member(path, f.name), f.kind)
                  ELSE {})
            : f \in FieldsOf(kind) }

Entries == SchemaEntries(Root, "DiscordInviteSchemaV9")

SchemaPaths == {e.path : e \in Entries}

\* Members the schema does not know, which a body may carry all the same.
ExtraEntries ==
    { [path |-> Member(Root, "flags"), parent |-> Root],
      [path |-> Member(Member(Root, "guild"), "nsfw_reason"),
       parent |-> Member(Root, "guild")],
      [path |-> Member(Member(Root, "inviter"), "premium_type"),
       parent |-> Member(Root, "inviter")],
      [path |-> Member(Member(Root, "channel"), "recipients"),
       parent |-> Member(Root, "channel")],
      [path |-> Member(Member(Root, "profile"), "brand_type"),
       parent |-> Member(Root, "profile")] }

ExtraPaths == {e.path : e \in ExtraEntries}

Paths == {Root} \cup SchemaPaths \cup ExtraPaths

ParentOf ==
    [p \in Paths |->
        IF p \in SchemaPaths THEN (CHOOSE e \in Entries : e.path = p).parent
        ELSE IF p \in ExtraPaths THEN (CHOOSE e \in ExtraEntries : e.path = p).parent
        ELSE Root]

\* The member at `path` exists: every object on the way to it is an object.
RECURSIVE Reached(_, _)
Reached(body, path) ==
    \/ path = Root
    \/ /\ body[ParentOf[path]].t = "object"
       /\ Reached(body, ParentOf[path])

(***************************************************************************)
(* zod: safeParse.  A value passes a field when it is undefined and the    *)
(* field optional (or unknown, which accepts everything), null and the     *)
(* field nullable, or of the field's type; an object passes when each      *)
(* member the schema names passes.  Members the schema does not name are   *)
(* dropped from the parsed data, not rejected.                             *)
(***************************************************************************)
\* A plausible slip: every field optional (a missing member passes).
ValueOk_MissingPasses(fld, v) ==
    CASE fld.kind = "unknown" -> TRUE
      [] v.t = "undefined" -> TRUE
      [] v.t = "null" -> fld.nullable
      [] fld.kind = "string" -> v.t = "string"
      [] fld.kind = "number" -> v.t = "number"
      [] fld.kind = "boolean" -> v.t = "boolean"
      [] fld.kind = "strings" ->
            v.t = "array" /\ \A i \in 1..Len(v.a) : v.a[i] = "string"
      [] fld.kind = "unknowns" -> v.t = "array"
      [] OTHER -> v.t = "object"

ValueOk(fld, v) ==
    CASE fld.kind = "unknown" -> TRUE
      [] v.t = "undefined" -> fld.optional
      [] v.t = "null" -> fld.nullable
      [] fld.kind = "string" -> v.t = "string"
      [] fld.kind = "number" -> v.t = "number"
      [] fld.kind = "boolean" -> v.t = "boolean"
      [] fld.kind = "strings" ->
            v.t = "array" /\ \A i \in 1..Len(v.a) : v.a[i] = "string"
      [] fld.kind = "unknowns" -> v.t = "array"
      [] OTHER -> v.t = "object"

\* A plausible slip: z.strictObject, a member the schema does not name is an issue.
Issues_UnknownKeysRejected(body) ==
    (IF body[Root].t = "object" THEN {} ELSE {Root})
    \cup {e.path : e \in {x \in Entries :
                            /\ Reached(body, x.path)
                            /\ ~ValueOk(x.fld, body[x.path])}}
    \cup {p \in ExtraPaths : Reached(body, p) /\ body[p].t # "undefined"}

\* The members of the body that fail the schema (zod's issues).
Issues(body) ==
    (IF body[Root].t = "object" THEN {} ELSE {Root})
    \cup {e.path : e \in {x \in Entries :
                            /\ Reached(body, x.path)
                            /\ ~ValueOk(x.fld, body[x.path])}}

safeParseSuccess(body) == Issues(body) = {}

safeParseData(body) ==
    [p \in Paths |->
        IF p = Root THEN body[Root]
        ELSE IF p \in SchemaPaths /\ Reached(body, p) THEN body[p]
        ELSE JUndef]
(***************************************************************************)
(* Upstream bodies.  A well-formed invite, and the bodies that differ from *)
(* it in at most MaxOverrides members.                                     *)
(***************************************************************************)
P(a, b) == Member(Member(Root, a), b)

DefaultValue(fld) ==
    CASE fld.kind = "string" -> JStr(fld.name)
      [] fld.kind = "number" -> JNum(1)
      [] fld.kind = "boolean" -> JBool(FALSE)
      [] fld.kind = "strings" -> JArr(<<"string">>)
      [] fld.kind = "unknowns" -> JArr(<<"object">>)
      [] fld.kind = "unknown" -> JNull
      [] fld.optional -> JNull
      [] OTHER -> JObj

\* Children of a member that is no object do not exist.
Canon(body) ==
    [p \in Paths |-> IF Reached(body, p) THEN body[p] ELSE JUndef]

\* `body` with the members named by `changes` (records [path, value]) replaced.
With(body, changes) ==
    Canon([p \in Paths |->
            IF \E c \in changes : c.path = p
            THEN (CHOOSE c \in changes : c.path = p).value
            ELSE body[p]])

Set(path, value) == [path |-> path, value |-> value]

WellFormed ==
    With([p \in Paths |->
            IF p = Root THEN JObj
            ELSE IF p \in SchemaPaths
                 THEN DefaultValue((CHOOSE e \in Entries : e.path = p).fld)
                 ELSE JUndef],
         { Set(Member(Root, "code"), JStr("abc123")),
           Set(Member(Root, "expires_at"), JNull),
           Set(P("guild", "id"), JStr("G1")),
           Set(P("guild", "icon"), JStr("icon1")),
           Set(P("guild", "splash"), JStr("splash1")),
           Set(P("guild", "banner"), JStr("banner1")),
           Set(P("inviter", "id"), JStr("U1")),
           Set(P("inviter", "avatar"), JStr("avatar1")),
           Set(P("inviter", "banner"), JStr("ubanner1")),
           Set(P("inviter", "accent_color"), JNull),
           Set(P("inviter", "global_name"), JStr("Tom")),
           Set(P("inviter", "banner_color"), JNull),
           Set(P("profile", "member_count"), JNum(5)),
           Set(P("profile", "online_count"), JNum(2)) })

\* Changes to the image hashes.
HashChanges ==
    { Set(P("guild", "icon"), JNull), Set(P("guild", "splash"), JNull),
      Set(P("guild", "banner"), JNull), Set(P("inviter", "avatar"), JNull),
      Set(P("inviter", "banner"), JNull) }

\* An invite without a creator.
NoCreatorChanges ==
    { Set(Member(Root, "inviter"), JNull), Set(Member(Root, "inviter"), JUndef) }

\* Changes to the other members the transformer reads, and to members it ignores.
ValueChanges ==
    { Set(Member(Root, "expires_at"), JStr("2025-01-01T00:00:00.000Z")),
      Set(Member(Root, "expires_at"), JStr("1970-01-01T00:00:00.000Z")),
      Set(Member(Root, "expires_at"), JStr("soon")),
      Set(Member(Root, "expires_at"), JStr("")),
      Set(Member(Root, "code"), JStr("python")),
      Set(P("profile", "online_count"), JNum(9)),
      Set(P("profile", "online_count"), JNum(-1)),
      Set(P("profile", "member_count"), JNum(0)),
      Set(P("inviter", "accent_color"), JNum(0)),
      Set(P("inviter", "accent_color"), JNum(255)),
      Set(P("inviter", "global_name"), JNull),
      Set(P("inviter", "global_name"), JStr("")),
      Set(P("inviter", "banner_color"), JStr("#ff0000")),
      Set(Member(Root, "flags"), JNum(2)),
      Set(P("guild", "nsfw_reason"), JStr("none")),
      Set(P("inviter", "premium_type"), JNum(2)),
      Set(P("channel", "recipients"), JArr(<<"object">>)),
      Set(P("profile", "brand_type"), JNull),
      Set(Member(Root, "approximate_member_count"), JUndef) }

\* Missing and wrongly typed members (a clan that is an object has none of the
\* members ClanSchema requires).
Defects ==
    { Set(Root, JArr(<<>>)), Set(Root, JNull), Set(Root, JStr("Unknown Invite")),
      Set(Member(Root, "type"), JStr("0")),
      Set(Member(Root, "code"), JUndef), Set(Member(Root, "code"), JNum(7)),
      Set(Member(Root, "code"), JNull),
      Set(Member(Root, "inviter"), JStr("U1")),
      Set(Member(Root, "expires_at"), JUndef), Set(Member(Root, "expires_at"), JNum(0)),
      Set(Member(Root, "guild"), JNull), Set(Member(Root, "guild"), JUndef),
      Set(Member(Root, "guild_id"), JUndef),
      Set(Member(Root, "channel"), JArr(<<>>)),
      Set(Member(Root, "profile"), JUndef),
      Set(P("guild", "id"), JUndef), Set(P("guild", "icon"), JUndef),
      Set(P("guild", "icon"), JNum(3)),
      Set(P("guild", "features"), JArr(<<"string", "number">>)),
      Set(P("guild", "nsfw"), JStr("false")),
      Set(P("channel", "name"), JNull),
      Set(P("profile", "member_count"), JStr("5")),
      Set(P("profile", "online_count"), JUndef),
      Set(P("profile", "traits"), JNull),
      Set(P("inviter", "id"), JNull), Set(P("inviter", "avatar"), JUndef),
      Set(P("inviter", "global_name"), JNum(1)),
      Set(P("inviter", "accent_color"), JStr("255")),
      Set(P("inviter", "clan"), JObj),
      Set(Member(Root, "approximate_member_count"), JNull) }

MaxOverrides == 2

\* The sets of at most n changes, no two of them to the same member.
RECURSIVE ChangeSets(_, _)
ChangeSets(changes, n) ==
    IF n = 0 THEN {{}}
    ELSE LET smaller == ChangeSets(changes, n - 1)
         IN  smaller \cup
             { S \cup {c} : <<S, c>> \in
                 {x \in smaller \X changes : \A d \in x[1] : d.path # x[2].path} }

Bodies(changes) == {With(WellFormed, S) : S \in ChangeSets(changes, MaxOverrides)}

\* The body of an upstream error answer, e.g. {"message": "Unknown Invite", "code": 10006}.
ErrorBody ==
    With([p \in Paths |-> IF p = Root THEN JObj ELSE JUndef],
         {Set(Member(Root, "code"), JNum(10006))})

Payloads ==
    Bodies(HashChanges \cup ValueChanges \cup NoCreatorChanges \cup Defects)
    \cup {ErrorBody}

LocatorPayloads == Bodies(HashChanges)
(***************************************************************************)
(* The image locators (ImageGetter, ImageGifgetter).  A locator is the     *)
(* closure the factory returns: the three values it captured.              *)
(***************************************************************************)
Null == [t |-> "null"]

CDN == "https://cdn.discordapp.com/"

PNG == "png"

GIF == "gif"

ImageGetter(mediaType, userId, ressourceId) ==
    [t |-> "function", fn |-> "ImageGetter", mediaType |-> mediaType,
     userId |-> userId, ressourceId |-> ressourceId]

ImageGifgetter(mediatype, userId, ressourceId) ==
    [t |-> "function", fn |-> "ImageGifgetter", mediaType |-> mediatype,
     userId |-> userId, ressourceId |-> ressourceId]

\* A plausible slip: the factory probes at once, when the result is built.
ImageGifgetterRequests_Eager(mediatype, userId, ressourceId) ==
    << [ url |-> CDN \o mediatype \o "/" \o Render(userId) \o "/"
                     \o Render(ressourceId) \o "." \o GIF,
         method |-> "HEAD" ] >>

\* The requests the factory ImageGifgetter itself issues: none, the probe is
\* inside the closure it returns.
ImageGifgetterRequests(mediatype, userId, ressourceId) == <<>>

\* `?size=${args.size}` or "".
SizeSuffix(args) ==
    IF Truthy(args.size) THEN "?size=" \o Render(args.size) ELSE ""

\* A plausible slip: the requested extension is ignored.
ImageGetterUrl_ExtensionIgnored(loc, args) ==
    CDN \o loc.mediaType \o "/" \o Render(loc.userId) \o "/"
        \o Render(loc.ressourceId) \o "." \o PNG \o SizeSuffix(args)

\* The static locator called with args = [size, extension].
ImageGetterUrl(loc, args) ==
    LET extension == IF Truthy(args.extension) THEN Render(args.extension) ELSE PNG
    IN  CDN \o loc.mediaType \o "/" \o Render(loc.userId) \o "/"
            \o Render(loc.ressourceId) \o "." \o extension \o SizeSuffix(args)

\* The animated locator: `link`, the probe it issues and what it returns.
GifLink(loc) ==
    CDN \o loc.mediaType \o "/" \o Render(loc.userId) \o "/"
        \o Render(loc.ressourceId) \o "."

\* checkMethod = "HEAD" when the caller passes none.
CheckMethod(checkMethod) ==
    IF checkMethod.t = "undefined" THEN "HEAD" ELSE Render(checkMethod)

ProbeRequest(loc, checkMethod) ==
    [url |-> GifLink(loc) \o GIF, method |-> CheckMethod(checkMethod)]

\* Response.ok: the status is in the range 200-299.
ResponseOk(status) == status >= 200 /\ status <= 299

\* A plausible slip: only a 404 is taken for "no animated variant".
ImageGifgetterUrl_Only404(loc, args, status) ==
    LET backUpExtension ==
            IF Truthy(args.backupExtension) THEN Render(args.backupExtension) ELSE PNG
    IN  IF status # 404
        THEN GifLink(loc) \o GIF \o SizeSuffix(args)
        ELSE GifLink(loc) \o backUpExtension \o SizeSuffix(args)

ImageGifgetterUrl(loc, args, status) ==
    LET backUpExtension ==
            IF Truthy(args.backupExtension) THEN Render(args.backupExtension) ELSE PNG
    IN  IF ResponseOk(status)
        THEN GifLink(loc) \o GIF \o SizeSuffix(args)
        ELSE GifLink(loc) \o backUpExtension \o SizeSuffix(args)

(***************************************************************************)
(* The transformer (convertInviteStatusV9).                                *)
(***************************************************************************)
\* new Date(s): the time in seconds since the epoch, or an invalid Date.
NewDate(str) ==
    CASE str = "2025-01-01T00:00:00.000Z" ->
            [t |-> "Date", valid |-> TRUE, time |-> 1735689600]
      [] str = "1970-01-01T00:00:00.000Z" ->
            [t |-> "Date", valid |-> TRUE, time |-> 0]
      [] OTHER -> [t |-> "Date", valid |-> FALSE, time |-> 0]

\* A plausible slip: new Date(data.expires_at) without the null check, and
\* new Date(null) is the epoch.
ConvertExpiresAt_NoNullCheck(data) ==
    IF data[Member(Root, "expires_at")].t = "null"
    THEN [t |-> "Date", valid |-> TRUE, time |-> 0]
    ELSE NewDate(data[Member(Root, "expires_at")].s)

ConvertExpiresAt(data) ==
    IF Truthy(data[Member(Root, "expires_at")])
    THEN NewDate(data[Member(Root, "expires_at")].s)
    ELSE Null

\* A plausible slip: the two counts are taken from each other's member.
ConvertGuild_CountsSwapped(data) ==
    LET g(name) == data[P("guild", name)]
        pr(name) == data[P("profile", name)]
    IN  [ id |-> g("id"),
          name |-> g("name"),
          icon |-> ImageGetter("icons", g("id"), g("icon")),
          banner |-> IF Truthy(g("splash"))
                     THEN ImageGetter("splashes", g("id"), g("splash")) ELSE Null,
          iconGif |-> ImageGifgetter("icons", g("id"), g("icon")),
          bannerGif |-> IF Truthy(g("banner"))
                        THEN ImageGifgetter("splashes", g("id"), g("banner")) ELSE Null,
          members |-> pr("online_count"),
          onlines |-> pr("member_count"),
          description |-> g("description"),
          features |-> g("features"),
          verificationLevel |-> g("verification_level"),
          vanityUrl |-> g("vanity_url_code"),
          nsfwLevel |-> g("nsfw_level"),
          nsfw |-> g("nsfw"),
          premiumSubscription |-> g("premium_subscription_count"),
          premiumTier |-> g("premium_tier"),
          tag |-> pr("tag"),
          badge |-> [ count |-> pr("badge"),
                      colorPrimary |-> pr("badge_color_primary"),
                      colorSecondary |-> pr("badge_color_secondary"),
                      hash |-> pr("badge_hash") ],
          traits |-> pr("traits"),
          visibility |-> pr("visibility") ]

ConvertGuild(data) ==
    LET g(name) == data[P("guild", name)]
        pr(name) == data[P("profile", name)]
    IN  [ id |-> g("id"),
          name |-> g("name"),
          icon |-> ImageGetter("icons", g("id"), g("icon")),
          banner |-> IF Truthy(g("splash"))
                     THEN ImageGetter("splashes", g("id"), g("splash")) ELSE Null,
          iconGif |-> ImageGifgetter("icons", g("id"), g("icon")),
          bannerGif |-> IF Truthy(g("banner"))
                        THEN ImageGifgetter("splashes", g("id"), g("banner")) ELSE Null,
          members |-> pr("member_count"),
          onlines |-> pr("online_count"),
          description |-> g("description"),
          features |-> g("features"),
          verificationLevel |-> g("verification_level"),
          vanityUrl |-> g("vanity_url_code"),
          nsfwLevel |-> g("nsfw_level"),
          nsfw |-> g("nsfw"),
          premiumSubscription |-> g("premium_subscription_count"),
          premiumTier |-> g("premium_tier"),
          tag |-> pr("tag"),
          badge |-> [ count |-> pr("badge"),
                      colorPrimary |-> pr("badge_color_primary"),
                      colorSecondary |-> pr("badge_color_secondary"),
                      hash |-> pr("badge_hash") ],
          traits |-> pr("traits"),
          visibility |-> pr("visibility") ]

ConvertChannel(data) ==
    [ id |-> data[P("channel", "id")],
      type |-> data[P("channel", "type")],
      name |-> data[P("channel", "name")] ]

\* A plausible slip: global_name is copied as it is, null included.
ConvertInviter_GlobalNameCopied(data) ==
    LET u(name) == data[P("inviter", name)]
    IN  IF Truthy(data[Member(Root, "inviter")])
        THEN [ t |-> "object",
               id |-> u("id"),
               username |-> u("username"),
               globalName |-> u("global_name"),
               avatar |-> ImageGetter("avatars", u("id"), u("avatar")),
               banner |-> IF Truthy(u("banner"))
                          THEN ImageGetter("banners", u("id"), u("banner")) ELSE Null,
               avatarGif |-> ImageGifgetter("avatars", u("id"), u("avatar")),
               bannerGif |-> IF Truthy(u("banner"))
                             THEN ImageGifgetter("banners", u("id"), u("banner"))
                             ELSE Null,
               discriminator |-> u("discriminator"),
               flags |-> u("flags"),
               publicFlags |-> u("public_flags"),
               accentColor |-> IF Truthy(u("accent_color")) THEN u("accent_color")
                               ELSE JNull,
               bannerColor |-> IF Truthy(u("banner_color"))
                               THEN JStr(Render(u("banner_color"))) ELSE JNull ]
        ELSE Null

ConvertInviter(data) ==
    LET u(name) == data[P("inviter", name)]
    IN  IF Truthy(data[Member(Root, "inviter")])
        THEN [ t |-> "object",
               id |-> u("id"),
               username |-> u("username"),
               globalName |-> IF Truthy(u("global_name")) THEN u("global_name")
                              ELSE JStr(""),
               avatar |-> ImageGetter("avatars", u("id"), u("avatar")),
               banner |-> IF Truthy(u("banner"))
                          THEN ImageGetter("banners", u("id"), u("banner")) ELSE Null,
               avatarGif |-> ImageGifgetter("avatars", u("id"), u("avatar")),
               bannerGif |-> IF Truthy(u("banner"))
                             THEN ImageGifgetter("banners", u("id"), u("banner"))
                             ELSE Null,
               discriminator |-> u("discriminator"),
               flags |-> u("flags"),
               publicFlags |-> u("public_flags"),
               accentColor |-> IF Truthy(u("accent_color")) THEN u("accent_color")
                               ELSE JNull,
               bannerColor |-> IF Truthy(u("banner_color"))
                               THEN JStr(Render(u("banner_color"))) ELSE JNull ]
        ELSE Null

\* A plausible slip: the code is taken from another member of the data.
convertInviteStatusV9_WrongCode(data) ==
    [ t |-> "object",
      code |-> data[Member(Root, "guild_id")],
      expiresAt |-> ConvertExpiresAt(data),
      guild |-> ConvertGuild(data),
      channel |-> ConvertChannel(data),
      inviter |-> ConvertInviter(data) ]

convertInviteStatusV9(data) ==
    [ t |-> "object",
      code |-> data[Member(Root, "code")],
      expiresAt |-> ConvertExpiresAt(data),
      guild |-> ConvertGuild(data),
      channel |-> ConvertChannel(data),
      inviter |-> ConvertInviter(data) ]

\* The requests issued while the transformer runs: those of the four calls of
\* the factory ImageGifgetter (the two banner ones only with a banner hash).
ConvertRequests(data) ==
    LET g(name) == data[P("guild", name)]
        u(name) == data[P("inviter", name)]
    IN  ImageGifgetterRequests("icons", g("id"), g("icon"))
        \o (IF Truthy(g("banner"))
            THEN ImageGifgetterRequests("splashes", g("id"), g("banner")) ELSE <<>>)
        \o (IF Truthy(data[Member(Root, "inviter")])
            THEN ImageGifgetterRequests("avatars", u("id"), u("avatar"))
                 \o (IF Truthy(u("banner"))
                     THEN ImageGifgetterRequests("banners", u("id"), u("banner"))
                     ELSE <<>>)
            ELSE <<>>)
(***************************************************************************)
(* extractDiscordInviteId.  A url is the sequence of its characters, and   *)
(* url.match(/^https:\/\/(www\.)?(discord\.gg|discord\.com\/invite)\/      *)
(* ([a-zA-Z0-9-_]+)\/?$/) is computed element by element of the regular     *)
(* expression, as the set of positions at which the rest may go on.        *)
(***************************************************************************)
Https == <<"h", "t", "t", "p", "s", ":", "/", "/">>

Www == <<"w", "w", "w", ".">>

DiscordGg == <<"d", "i", "s", "c", "o", "r", "d", ".", "g", "g">>

DiscordComInvite ==
    <<"d", "i", "s", "c", "o", "r", "d", ".", "c", "o", "m", "/",
      "i", "n", "v", "i", "t", "e">>

Slash == <<"/">>

\* The class [a-zA-Z0-9-_].
IdChars ==
    { "a", "b", "c", "d", "e", "f", "g", "h", "i", "j", "k", "l", "m",
      "n", "o", "p", "q", "r", "s", "t", "u", "v", "w", "x", "y", "z",
      "A", "B", "C", "D", "E", "F", "G", "H", "I", "J", "K", "L", "M",
      "N", "O", "P", "Q", "R", "S", "T", "U", "V", "W", "X", "Y", "Z",
      "0", "1", "2", "3", "4", "5", "6", "7", "8", "9", "-", "_" }

\* The literal `lit` stands in `url` from position p on.
At(url, p, lit) ==
    /\ p + Len(lit) - 1 <= Len(url)
    /\ SubSeq(url, p, p + Len(lit) - 1) = lit

\* The positions reached from those of `ps` by the literal, and by (literal)?.
Lit(url, ps, lit) == {p + Len(lit) : p \in {q \in ps : At(url, q, lit)}}

Opt(url, ps, lit) == ps \cup Lit(url, ps, lit)

\* The spans <<first, last>> of group 3 at which the expression down to group 3
\* matches: one or more characters of the class, from a position after the "/".
Group3(url) ==
    LET scheme == Lit(url, {1}, Https)
        www == Opt(url, scheme, Www)
        host == Lit(url, www, DiscordGg) \cup Lit(url, www, DiscordComInvite)
        slash == Lit(url, host, Slash)
    IN  { g \in slash \X (1..Len(url)) :
            /\ g[1] <= g[2]
            /\ \A k \in g[1]..g[2] : url[k] \in IdChars }

\* A plausible slip: the expression without its final $.
Match_Unanchored(url) == Group3(url)

\* url.match(...): the spans of group 3 from which \/?$ matches too (none: null).
Match(url) ==
    { g \in Group3(url) :
        \/ g[2] = Len(url)
        \/ g[2] + 1 = Len(url) /\ At(url, g[2] + 1, Slash) }

InvalidLink ==
    "Invalid Discord invite link. Accepted formats: https://discord.gg/{id} or https://discord.com/invite/{id}"

\* extractDiscordInviteId(url): match[3] (the + is greedy: the longest span),
\* or the Error thrown.
extractDiscordInviteId(url) ==
    IF Match(url) = {}
    THEN [pc |-> "thrown", url |-> url, value |-> <<>>,
          error |-> [name |-> "Error", message |-> InvalidLink]]
    ELSE LET g == CHOOSE g \in Match(url) : \A h \in Match(url) : h[2] <= g[2]
         IN  [pc |-> "returned", url |-> url, value |-> SubSeq(url, g[1], g[2]),
              error |-> [name |-> "", message |-> ""]]

IdleExtraction ==
    [pc |-> "idle", url |-> <<>>, value |-> <<>>, error |-> [name |-> "", message |-> ""]]

\* The urls explored: a scheme, www. or not, a host and path, "/", and up to
\* MaxIdLen characters, some of the class and some not.
Http == <<"h", "t", "t", "p", ":", "/", "/">>

DiscordCom == <<"d", "i", "s", "c", "o", "r", "d", ".", "c", "o", "m">>

DiscordappComInvite ==
    <<"d", "i", "s", "c", "o", "r", "d", "a", "p", "p", ".", "c", "o", "m", "/",
      "i", "n", "v", "i", "t", "e">>

UrlChars == {"a", "Z", "7", "-", "_", ".", "/", "?"}

MaxIdLen == 2

RECURSIVE Strings(_, _)
Strings(chars, n) ==
    IF n = 0 THEN {<<>>}
    ELSE LET shorter == Strings(chars, n - 1)
         IN  shorter \cup {Append(x, ch) : x \in shorter, ch \in chars}

Urls ==
    { scheme \o www \o host \o Slash \o rest :
        scheme \in {Https, Http, <<>>}, www \in {<<>>, Www},
        host \in {DiscordGg, DiscordComInvite, DiscordCom, DiscordappComInvite},
        rest \in Strings(UrlChars, MaxIdLen) }

(***************************************************************************)
(* State.                                                                  *)
(*   calls  each call of getInviteStatus: where it stands (pc), the        *)
(*          requests it issued, the response, the parsed data, the result  *)
(*          or the error, and how often it decoded, validated, converted.  *)
(*   inv    the caller's invocations of the locators of a result.          *)
(*   cdn    the requests issued to the CDN, in order.                      *)
(*   extraction  the call of extractDiscordInviteId: its url and what it   *)
(*          returned or threw.                                             *)
(*   checks the calls of isResourceAvailable: the url, the requests issued *)
(*          and the boolean the call resolved with.                        *)
(***************************************************************************)
VARIABLES calls, inv, cdn, extraction, checks

vars == <<calls, inv, cdn, extraction, checks>>

Absent == [p \in Paths |-> JUndef]

NoResponse == [status |-> 0, statusText |-> "", json |-> FALSE, body |-> Absent]

NoError == [name |-> "", message |-> ""]

IdleCall ==
    [ pc |-> "idle", inviteId |-> "", requests |-> <<>>, response |-> NoResponse,
      decodes |-> 0, validations |-> 0, conversions |-> 0,
      data |-> Absent, result |-> Null, error |-> NoError ]

InviteIds == {"abc123", "PYTHON"}

Statuses == {200, 201, 404, 429, 500}

StatusText(status) ==
    CASE status = 200 -> "OK"
      [] status = 201 -> "Created"
      [] status = 404 -> "Not Found"
      [] status = 429 -> "Too Many Requests"
      [] status = 500 -> "Internal Server Error"
      [] OTHER -> ""

Response(status, json, body) ==
    [status |-> status, statusText |-> StatusText(status), json |-> json, body |-> body]

\* The answers of the invite endpoint: any of the bodies with a 200, a body
\* that is no JSON, and the other statuses with an error body or with a body
\* that would pass the schema.
Responses(bodies) ==
    {Response(200, TRUE, b) : b \in bodies}
    \cup {Response(st, FALSE, Absent) : st \in {200, 500}}
    \cup {Response(st, TRUE, b) : st \in Statuses \ {200}, b \in {ErrorBody, WellFormed}}

InitCalls(ids) ==
    /\ calls = [c \in ids |-> IdleCall]
    /\ inv = <<>>
    /\ cdn = <<>>
    /\ extraction = IdleExtraction
    /\ checks = <<>>

Init == InitCalls({1})

\* fetchInviteStatusV9: the url of the request.
InviteUrl(inviteId) ==
    "https://discord.com/api/v9/invites/" \o inviteId
        \o "?with_counts=true&with_expiration=true"

\* getInviteStatus(inviteId) -> getInviteStatusV9 -> fetchInviteStatusV9, up to
\* `await fetch(url)`: the request is issued.
Call(c, inviteId) ==
    /\ calls[c].pc = "idle"
    /\ calls' = [calls EXCEPT ![c] =
                    [@ EXCEPT !.pc = "fetch", !.inviteId = inviteId,
                              !.requests = Append(@, [url |-> InviteUrl(inviteId),
                                                     method |-> "GET"])]]
    /\ UNCHANGED <<inv, cdn, extraction, checks>>

\* A plausible slip: a rejected fetch is retried once.
FetchReject_Retry(c) ==
    /\ calls[c].pc = "fetch"
    /\ \/ /\ Len(calls[c].requests) < 2
          /\ calls' = [calls EXCEPT ![c] =
                [@ EXCEPT !.requests = Append(@, [url |-> InviteUrl(calls[c].inviteId),
                                                 method |-> "GET"])]]
       \/ /\ Len(calls[c].requests) >= 2
          /\ calls' = [calls EXCEPT ![c] =
                [@ EXCEPT !.pc = "failed",
                          !.error = [name |-> "TypeError", message |-> "fetch failed"]]]
    /\ UNCHANGED <<inv, cdn, extraction, checks>>

\* fetch rejects (no response): the error passes through both async functions.
FetchReject(c) ==
    /\ calls[c].pc = "fetch"
    /\ calls' = [calls EXCEPT ![c] =
                    [@ EXCEPT !.pc = "failed",
                              !.error = [name |-> "TypeError", message |-> "fetch failed"]]]
    /\ UNCHANGED <<inv, cdn, extraction, checks>>

\* A plausible slip: only the server errors are taken for failures.
ThrowsOnResponse_ServerErrorsOnly(r) == r.status >= 500

\* if (!response.ok) throw ...
ThrowsOnResponse(r) == ~ResponseOk(r.status)

\* fetch resolves with a response: throw unless response.ok, else response.json().
FetchRespond(c, bodies) ==
    /\ calls[c].pc = "fetch"
    /\ \E r \in Responses(bodies) :
        \/ /\ ThrowsOnResponse(r)
           /\ calls' = [calls EXCEPT ![c] =
                 [@ EXCEPT !.pc = "failed", !.response = r,
                           !.error = [name |-> "Error",
                                      message |-> "Failed to fetch invite status: "
                                                     \o r.statusText]]]
        \/ /\ ~ThrowsOnResponse(r)
           /\ calls' = [calls EXCEPT ![c] =
                 [@ EXCEPT !.pc = "json", !.response = r, !.decodes = @ + 1]]
    /\ UNCHANGED <<inv, cdn, extraction, checks>>

\* A plausible slip: a body that is no JSON is handed to safeParse as undefined.
JsonSettle_DecodeFailureValidated(c) ==
    LET body == calls[c].response.body IN
    /\ calls[c].pc = "json"
    /\ \/ /\ ~safeParseSuccess(body)
          /\ calls' = [calls EXCEPT ![c] =
                [@ EXCEPT !.pc = "failed", !.validations = @ + 1,
                          !.error = [name |-> "Error",
                                     message |-> "Invalid data structure: "
                                        \o (CHOOSE p \in Issues(body) : TRUE)]]]
       \/ /\ safeParseSuccess(body)
          /\ calls' = [calls EXCEPT ![c] =
                [@ EXCEPT !.pc = "return", !.validations = @ + 1,
                          !.data = safeParseData(body)]]
    /\ UNCHANGED <<inv, cdn, extraction, checks>>

\* response.json() settles: it rejects on a body that is no JSON; else safeParse,
\* throw on a failure, return parsedData.data on a success.
JsonSettle(c) ==
    LET body == calls[c].response.body IN
    /\ calls[c].pc = "json"
    /\ \/ /\ ~calls[c].response.json
          /\ calls' = [calls EXCEPT ![c] =
                [@ EXCEPT !.pc = "failed",
                          !.error = [name |-> "SyntaxError",
                                     message |-> "Unexpected token"]]]
       \/ /\ calls[c].response.json
          /\ ~safeParseSuccess(body)
          /\ calls' = [calls EXCEPT ![c] =
                [@ EXCEPT !.pc = "failed", !.validations = @ + 1,
                          !.error = [name |-> "Error",
                                     message |-> "Invalid data structure: "
                                        \o (CHOOSE p \in Issues(body) : TRUE)]]]
       \/ /\ calls[c].response.json
          /\ safeParseSuccess(body)
          /\ calls' = [calls EXCEPT ![c] =
                [@ EXCEPT !.pc = "return", !.validations = @ + 1,
                          !.data = safeParseData(body)]]
    /\ UNCHANGED <<inv, cdn, extraction, checks>>

\* A plausible slip: the parsed data is kept in a variable of the module, which
\* another call may have overwritten by the time this one converts.
Convert_SharedInviteData(c) ==
    /\ calls[c].pc = "return"
    /\ \E d \in DOMAIN calls :
        /\ calls[d].pc \in {"return", "done"}
        /\ calls' = [calls EXCEPT ![c] =
                        [@ EXCEPT !.pc = "done", !.conversions = @ + 1,
                                  !.result = convertInviteStatusV9(calls[d].data)]]
    /\ cdn' = cdn \o ConvertRequests(calls[c].data)
    /\ UNCHANGED <<inv, extraction, checks>>

\* getInviteStatusV9 resumes with the parsed data and converts it.
Convert(c) ==
    /\ calls[c].pc = "return"
    /\ calls' = [calls EXCEPT ![c] =
                    [@ EXCEPT !.pc = "done", !.conversions = @ + 1,
                              !.result = convertInviteStatusV9(calls[c].data)]]
    /\ cdn' = cdn \o ConvertRequests(calls[c].data)
    /\ UNCHANGED <<inv, extraction, checks>>

(***************************************************************************)
(* The caller invokes a locator of a result it holds.                      *)
(***************************************************************************)
StaticSlots == {"guild.icon", "guild.banner", "inviter.avatar", "inviter.banner"}

GifSlots == {"guild.iconGif", "guild.bannerGif", "inviter.avatarGif", "inviter.bannerGif"}

Slot(result, name) ==
    CASE name = "guild.icon" -> result.guild.icon
      [] name = "guild.banner" -> result.guild.banner
      [] name = "guild.iconGif" -> result.guild.iconGif
      [] name = "guild.bannerGif" -> result.guild.bannerGif
      [] result.inviter.t # "object" -> Null
      [] name = "inviter.avatar" -> result.inviter.avatar
      [] name = "inviter.banner" -> result.inviter.banner
      [] name = "inviter.avatarGif" -> result.inviter.avatarGif
      [] name = "inviter.bannerGif" -> result.inviter.bannerGif
      [] OTHER -> Null

Sizes == {JUndef, JNum(0), JNum(128)}

Extensions == {JUndef, JStr("webp"), JStr("gif")}

BackupExtensions == {JUndef, JStr("webp"), JStr("jpg")}

CheckMethods == {JUndef, JStr("GET")}

ProbeStatuses == {200, 206, 304, 404, 415}

\* The arguments and probe answers explored: all of them, or the default ones.
AnyArgs ==
    [ sizes |-> Sizes, extensions |-> Extensions, backups |-> BackupExtensions,
      methods |-> CheckMethods, statuses |-> ProbeStatuses ]

DefaultArgs ==
    [ sizes |-> {JUndef}, extensions |-> {JUndef}, backups |-> {JUndef, JStr("webp")},
      methods |-> {JUndef}, statuses |-> {200, 404} ]

MaxInvocations == 2

\* result.<slot>(args): the static locator returns its URL at once.
InvokeStatic(c, opt, max) ==
    /\ calls[c].pc = "done"
    /\ Len(inv) < max
    /\ \E slot \in StaticSlots, args \in [size : opt.sizes, extension : opt.extensions] :
        /\ Slot(calls[c].result, slot).t = "function"
        /\ inv' = Append(inv, [ call |-> c, slot |-> slot, args |-> args,
                                method |-> "", pc |-> "done", status |-> 0,
                                url |-> ImageGetterUrl(Slot(calls[c].result, slot),
                                                       args) ])
    /\ UNCHANGED <<calls, cdn, extraction, checks>>

\* result.<slot>(args, checkMethod), up to `await fetch(...)`: the probe is issued.
InvokeGif(c, opt, max) ==
    /\ calls[c].pc = "done"
    /\ Len(inv) < max
    /\ \E slot \in GifSlots, args \in [size : opt.sizes, backupExtension : opt.backups],
          checkMethod \in opt.methods :
        /\ Slot(calls[c].result, slot).t = "function"
        /\ inv' = Append(inv, [ call |-> c, slot |-> slot, args |-> args,
                                method |-> CheckMethod(checkMethod), pc |-> "probe",
                                status |-> 0, url |-> "" ])
        /\ cdn' = Append(cdn, ProbeRequest(Slot(calls[c].result, slot), checkMethod))
    /\ UNCHANGED <<calls, extraction, checks>>

\* The probe is answered: the .gif URL on an ok status, the backup URL otherwise.
ProbeRespond(i, opt) ==
    /\ inv[i].pc = "probe"
    /\ \E status \in opt.statuses :
        inv' = [inv EXCEPT ![i] =
                [@ EXCEPT !.pc = "done", !.status = status,
                          !.url = ImageGifgetterUrl(
                                      Slot(calls[inv[i].call].result, inv[i].slot),
                                      inv[i].args, status)]]
    /\ UNCHANGED <<calls, cdn, extraction, checks>>

\* A plausible slip: a probe that fails without a response is taken for "no
\* animated variant", and the backup URL is returned.
ProbeReject_Fallback(i) ==
    /\ inv[i].pc = "probe"
    /\ inv' = [inv EXCEPT ![i] =
                [@ EXCEPT !.pc = "done",
                          !.url = ImageGifgetterUrl(
                                      Slot(calls[inv[i].call].result, inv[i].slot),
                                      inv[i].args, 0)]]
    /\ UNCHANGED <<calls, cdn, extraction, checks>>

\* The probe fails without a response: the invocation rejects.
ProbeReject(i) ==
    /\ inv[i].pc = "probe"
    /\ inv' = [inv EXCEPT ![i] = [@ EXCEPT !.pc = "failed"]]
    /\ UNCHANGED <<calls, cdn, extraction, checks>>

(***************************************************************************)
(* The tools: extractDiscordInviteId and isResourceAvailable.              *)
(***************************************************************************)
\* extractDiscordInviteId(url), a synchronous function: it returns or throws.
Extract(url) ==
    /\ extraction.pc = "idle"
    /\ extraction' = extractDiscordInviteId(url)
    /\ UNCHANGED <<calls, inv, cdn, checks>>

\* The urls a caller checks; fetch rejects the last one without a request
\* on the wire.
CheckUrls ==
    {"https://cdn.discordapp.com/icons/G1/icon1.gif", "https://example.org/", "//"}

Parsable(url) == url # "//"

CheckStatuses == {200, 204, 299, 301, 404, 500}

\* isResourceAvailable(url), up to `await fetch(url, { method: "HEAD" })`.
Check(url) ==
    /\ Len(checks) < MaxInvocations
    /\ checks' = Append(checks, [ pc |-> "fetch", url |-> url,
                                  requests |-> <<[url |-> url, method |-> "HEAD"]>>,
                                  status |-> 0, result |-> Null, logged |-> 0 ])
    /\ UNCHANGED <<calls, inv, cdn, extraction>>

\* fetch resolves with a response: return response.ok.
CheckRespond(i) ==
    /\ checks[i].pc = "fetch"
    /\ Parsable(checks[i].url)
    /\ \E status \in CheckStatuses :
        checks' = [checks EXCEPT ![i] =
                    [@ EXCEPT !.pc = "resolved", !.status = status,
                              !.result = JBool(ResponseOk(status))]]
    /\ UNCHANGED <<calls, inv, cdn, extraction>>

\* A plausible slip: no try/catch, the rejection of fetch passes through.
CheckReject_Propagated(i) ==
    /\ checks[i].pc = "fetch"
    /\ checks' = [checks EXCEPT ![i] = [@ EXCEPT !.pc = "rejected"]]
    /\ UNCHANGED <<calls, inv, cdn, extraction>>

\* fetch rejects: the catch block logs the error and returns false.
CheckReject(i) ==
    /\ checks[i].pc = "fetch"
    /\ checks' = [checks EXCEPT ![i] =
                    [@ EXCEPT !.pc = "resolved", !.logged = @ + 1,
                              !.result = JBool(FALSE)]]
    /\ UNCHANGED <<calls, inv, cdn, extraction>>

(***************************************************************************)
(* Specifications.                                                         *)
(*   Spec         one lookup, over every upstream answer.                  *)
(*   SpecLocator  one lookup over the bodies that differ in their image    *)
(*                hashes, then one locator invocation with any arguments.  *)
(*   SpecProbes   one lookup, then up to MaxInvocations locator            *)
(*                invocations, in flight together.                         *)
(*   SpecStatic   one lookup, then up to MaxInvocations invocations of     *)
(*                static locators with any arguments.                      *)
(*   SpecConcurrent  two lookups of different codes, their steps           *)
(*                interleaved in every way.                                *)
(*   SpecExtract  one call of extractDiscordInviteId, over the urls.       *)
(*   SpecCheck    up to MaxInvocations calls of isResourceAvailable, in    *)
(*                flight together.                                         *)
(***************************************************************************)
Next ==
    \/ \E c \in DOMAIN calls, inviteId \in InviteIds : Call(c, inviteId)
    \/ \E c \in DOMAIN calls : FetchReject(c)
    \/ \E c \in DOMAIN calls : FetchRespond(c, Payloads)
    \/ \E c \in DOMAIN calls : JsonSettle(c)
    \/ \E c \in DOMAIN calls : Convert(c)

Spec == Init /\ [][Next]_vars

NextLocator ==
    \/ \E c \in DOMAIN calls, inviteId \in InviteIds : Call(c, inviteId)
    \/ \E c \in DOMAIN calls : FetchReject(c)
    \/ \E c \in DOMAIN calls : FetchRespond(c, LocatorPayloads)
    \/ \E c \in DOMAIN calls : JsonSettle(c)
    \/ \E c \in DOMAIN calls : Convert(c)
    \/ \E c \in DOMAIN calls : InvokeStatic(c, AnyArgs, 1)
    \/ \E c \in DOMAIN calls : InvokeGif(c, AnyArgs, 1)
    \/ \E i \in DOMAIN inv : ProbeRespond(i, AnyArgs)
    \/ \E i \in DOMAIN inv : ProbeReject(i)

SpecLocator == Init /\ [][NextLocator]_vars

NextProbes ==
    \/ \E c \in DOMAIN calls, inviteId \in InviteIds : Call(c, inviteId)
    \/ \E c \in DOMAIN calls : FetchReject(c)
    \/ \E c \in DOMAIN calls : FetchRespond(c, {WellFormed})
    \/ \E c \in DOMAIN calls : JsonSettle(c)
    \/ \E c \in DOMAIN calls : Convert(c)
    \/ \E c \in DOMAIN calls : InvokeStatic(c, DefaultArgs, MaxInvocations)
    \/ \E c \in DOMAIN calls : InvokeGif(c, DefaultArgs, MaxInvocations)
    \/ \E i \in DOMAIN inv : ProbeRespond(i, DefaultArgs)
    \/ \E i \in DOMAIN inv : ProbeReject(i)

SpecProbes == Init /\ [][NextProbes]_vars

NextStatic ==
    \/ \E c \in DOMAIN calls, inviteId \in InviteIds : Call(c, inviteId)
    \/ \E c \in DOMAIN calls : FetchReject(c)
    \/ \E c \in DOMAIN calls : FetchRespond(c, {WellFormed})
    \/ \E c \in DOMAIN calls : JsonSettle(c)
    \/ \E c \in DOMAIN calls : Convert(c)
    \/ \E c \in DOMAIN calls : InvokeStatic(c, AnyArgs, MaxInvocations)

SpecStatic == Init /\ [][NextStatic]_vars

\* The answers two concurrent lookups may get: an invite, another invite, an
\* invite with a defect, and the other answers of Responses.
ConcurrentPayloads ==
    { WellFormed,
      With(WellFormed, {Set(Member(Root, "code"), JStr("python")),
                        Set(P("guild", "id"), JStr("G2"))}),
      With(WellFormed, {Set(Member(Root, "code"), JUndef)}) }

InitConcurrent == InitCalls({1, 2})

NextConcurrent ==
    \/ \E c \in DOMAIN calls, inviteId \in InviteIds :
            /\ \A d \in DOMAIN calls : calls[d].inviteId # inviteId
            /\ Call(c, inviteId)
    \/ \E c \in DOMAIN calls : FetchReject(c)
    \/ \E c \in DOMAIN calls : FetchRespond(c, ConcurrentPayloads)
    \/ \E c \in DOMAIN calls : JsonSettle(c)
    \/ \E c \in DOMAIN calls : Convert(c)

SpecConcurrent == InitConcurrent /\ [][NextConcurrent]_vars

NextExtract == \E url \in Urls : Extract(url)

SpecExtract == Init /\ [][NextExtract]_vars

NextCheck ==
    \/ \E url \in CheckUrls : Check(url)
    \/ \E i \in DOMAIN checks : CheckRespond(i)
    \/ \E i \in DOMAIN checks : CheckReject(i)

SpecCheck == Init /\ [][NextCheck]_vars
(***************************************************************************)
(* Properties.                                                             *)
(***************************************************************************)
Settled(c) == calls[c].pc \in {"done", "failed"}

\* The call got a 200 answer with a JSON body.
Answered(c) ==
    /\ calls[c].response.status = 200
    /\ calls[c].response.json

\* C1: once the invite endpoint has answered with a status outside 200-299,
\* the call has failed with an Error whose message carries the status text,
\* and the body was not decoded, not validated and not transformed.
C1_NonOkFailsBeforeDecode ==
    \A c \in DOMAIN calls :
        LET r == calls[c].response IN
        (r.status # 0 /\ (r.status < 200 \/ r.status > 299)) =>
            /\ calls[c].pc = "failed"
            /\ calls[c].error =
                 [name |-> "Error",
                  message |-> "Failed to fetch invite status: " \o StatusText(r.status)]
            /\ calls[c].decodes = 0
            /\ calls[c].validations = 0
            /\ calls[c].conversions = 0
            /\ calls[c].data = Absent
            /\ calls[c].result = Null

\* C1 witness: a 404 whose body would have passed the schema, and the call failed.
C1_Witness ==
    \E c \in DOMAIN calls :
        /\ calls[c].pc = "failed"
        /\ calls[c].response.status = 404
        /\ calls[c].response.json
        /\ calls[c].response.body = WellFormed

\* The body carries one of the defects: a required member that exists in its
\* parent object is missing or of the wrong type.
HasDefect(body) ==
    \E d \in Defects : Reached(body, d.path) /\ body[d.path] = d.value

\* C2: a decoded body with a missing or wrongly typed required member makes the
\* call fail with the validation Error, untransformed and without a result; and
\* the transformer runs only on data that passed the schema.
C2_ValidationIsGate ==
    \A c \in DOMAIN calls :
        /\ (calls[c].pc \notin {"idle", "fetch", "json"} /\ Answered(c)
              /\ HasDefect(calls[c].response.body)) =>
                /\ calls[c].pc = "failed"
                /\ calls[c].error.name = "Error"
                /\ \E p \in Paths :
                     calls[c].error.message = "Invalid data structure: " \o p
                /\ calls[c].validations = 1
                /\ calls[c].conversions = 0
                /\ calls[c].result = Null
        /\ (calls[c].conversions > 0 \/ calls[c].pc = "return") =>
                /\ calls[c].validations = 1
                /\ ~HasDefect(calls[c].response.body)
                /\ \A e \in Entries :
                     Reached(calls[c].response.body, e.path) =>
                        /\ calls[c].data[e.path] = calls[c].response.body[e.path]
                        /\ calls[c].data[e.path].t = "undefined" =>
                             (e.fld.optional \/ e.fld.kind = "unknown")

\* C2 witness: a body without its code member was validated and the call failed.
C2_Witness ==
    \E c \in DOMAIN calls :
        /\ calls[c].pc = "failed"
        /\ calls[c].validations = 1
        /\ calls[c].response.body = With(WellFormed, {Set(Member(Root, "code"), JUndef)})

\* The well-formed body of an invite without a creator: inviter null or missing.
NoCreatorBodies ==
    { With(WellFormed, {Set(Member(Root, "inviter"), JNull)}),
      With(WellFormed, {Set(Member(Root, "inviter"), JUndef)}) }

\* C3: a well-formed body without an inviter (null or missing) gives a result
\* whose inviter is null.
C3_NoCreatorGivesNullInviter ==
    \A c \in DOMAIN calls :
        (Settled(c) /\ Answered(c) /\ calls[c].response.body \in NoCreatorBodies) =>
            /\ calls[c].pc = "done"
            /\ calls[c].result.inviter = Null

\* The member of the body whose hash a locator slot of the result is built from.
HashPath(slot) ==
    CASE slot \in {"guild.icon", "guild.iconGif"} -> P("guild", "icon")
      [] slot = "guild.banner" -> P("guild", "splash")
      [] slot = "guild.bannerGif" -> P("guild", "banner")
      [] slot \in {"inviter.avatar", "inviter.avatarGif"} -> P("inviter", "avatar")
      [] OTHER -> P("inviter", "banner")

\* C4: in every result, a locator slot whose hash is null in the body is null.
C4_NullHashGivesNullLocator ==
    \A c \in DOMAIN calls :
        calls[c].pc = "done" =>
            \A slot \in StaticSlots \cup GifSlots :
                calls[c].response.body[HashPath(slot)].t = "null" =>
                    Slot(calls[c].result, slot) = Null

\* What C5 expects of an animated locator built from strings: the .gif URL on
\* a status in 200-299, the backup extension (png by default) on any other,
\* and the size suffix for a requested (positive) size.
ExpectedGifUrl(loc, args, status) ==
    LET ext == IF status >= 200 /\ status <= 299 THEN "gif"
               ELSE IF args.backupExtension.t = "undefined" THEN "png"
               ELSE args.backupExtension.s
        suffix == IF args.size.t = "number" /\ args.size.n > 0
                  THEN "?size=" \o ToString(args.size.n) ELSE ""
    IN  "https://cdn.discordapp.com/" \o loc.mediaType \o "/" \o loc.userId.s \o "/"
            \o loc.ressourceId.s \o "." \o ext \o suffix

\* C5: an answered invocation of an animated locator returns
\* <CDN>/<category>/<owner>/<hash>.gif on a 2xx probe status and
\* <CDN>/<category>/<owner>/<hash>.<backupExtension, png by default> on every
\* other status, each followed by ?size=<n> when a size n > 0 was requested.
C5_GifUrlByProbeStatus ==
    \A i \in DOMAIN inv :
        LET loc == Slot(calls[inv[i].call].result, inv[i].slot) IN
        (inv[i].slot \in GifSlots /\ inv[i].pc = "done"
            /\ loc.ressourceId.t = "string") =>
                inv[i].url = ExpectedGifUrl(loc, inv[i].args, inv[i].status)

\* C5 witness: a probe answered 415 (neither 2xx nor 404), a size requested and
\* no backup extension: the png URL with the size suffix.
C5_Witness ==
    \E i \in DOMAIN inv :
        /\ inv[i].slot = "guild.iconGif"
        /\ inv[i].pc = "done"
        /\ inv[i].status = 415
        /\ inv[i].args = [size |-> JNum(128), backupExtension |-> JUndef]
        /\ inv[i].url = "https://cdn.discordapp.com/icons/G1/icon1.png?size=128"

GifInvocations == {i \in DOMAIN inv : inv[i].slot \in GifSlots}

\* C6: the requests to the CDN are exactly the probes of the invocations of
\* animated locators, one each and in their order (so never more requests than
\* invocations, and none from the lookup itself), and an answered invocation
\* returns the URL its own probe status gives.
C6_ProbesOnlyOnInvocation ==
    /\ Len(cdn) = Cardinality(GifInvocations)
    /\ (\E c \in DOMAIN calls : ~Settled(c)) => cdn = <<>>
    /\ \A i \in GifInvocations :
        LET k == Cardinality({j \in GifInvocations : j <= i})
            loc == Slot(calls[inv[i].call].result, inv[i].slot)
        IN  /\ cdn[k] = [url |-> "https://cdn.discordapp.com/" \o loc.mediaType \o "/"
                                    \o loc.userId.s \o "/" \o loc.ressourceId.s \o ".gif",
                         method |-> inv[i].method]
            /\ inv[i].pc = "done" =>
                 inv[i].url = ExpectedGifUrl(loc, inv[i].args, inv[i].status)

\* C6 witness: two invocations of the same locator with the same arguments,
\* two probes, two different answers.
C6_Witness ==
    /\ Len(inv) = 2
    /\ Len(cdn) = 2
    /\ cdn[1] = cdn[2]
    /\ inv[1].slot = "guild.iconGif" /\ inv[2].slot = "guild.iconGif"
    /\ inv[1].args = inv[2].args
    /\ inv[1].pc = "done" /\ inv[2].pc = "done"
    /\ inv[1].url = "https://cdn.discordapp.com/icons/G1/icon1.gif"
    /\ inv[2].url = "https://cdn.discordapp.com/icons/G1/icon1.png"

\* C7: a call that has started has issued exactly one request, a GET of the
\* invite endpoint for its code with with_counts and with_expiration, whatever
\* became of it; a call that has not started has issued none.
C7_OneRequestPerCall ==
    \A c \in DOMAIN calls :
        IF calls[c].pc = "idle"
        THEN calls[c].requests = <<>>
        ELSE calls[c].requests =
                << [ url |-> "https://discord.com/api/v9/invites/" \o calls[c].inviteId
                               \o "?with_counts=true&with_expiration=true",
                     method |-> "GET" ] >>

\* C7 witness: a call that failed at the transport level, with its one request.
C7_Witness ==
    \E c \in DOMAIN calls :
        /\ calls[c].pc = "failed"
        /\ calls[c].error.name = "TypeError"
        /\ Len(calls[c].requests) = 1

\* C8 as claimed: every result has members >= onlines >= 0.
C8_MembersAtLeastOnlines ==
    \A c \in DOMAIN calls :
        calls[c].pc = "done" =>
            /\ calls[c].result.guild.members.n >= calls[c].result.guild.onlines.n
            /\ calls[c].result.guild.onlines.n >= 0

\* C8 amended: the result's members and onlines are the numbers member_count
\* and online_count of the body's profile, unchanged, so members >= onlines >= 0
\* holds in the result exactly when it holds of those two.
C8_CountsPassThrough ==
    \A c \in DOMAIN calls :
        calls[c].pc = "done" =>
            LET body == calls[c].response.body
                guild == calls[c].result.guild
            IN  /\ guild.members.t = "number" /\ guild.onlines.t = "number"
                /\ guild.members = body[P("profile", "member_count")]
                /\ guild.onlines = body[P("profile", "online_count")]

\* C8 witness: a result with more onlines than members.
C8_Witness ==
    \E c \in DOMAIN calls :
        /\ calls[c].pc = "done"
        /\ calls[c].result.guild.onlines.n > calls[c].result.guild.members.n

\* C9 as claimed: the code of every result is the code the caller supplied.
C9_CodeIsSuppliedCode ==
    \A c \in DOMAIN calls :
        calls[c].pc = "done" => calls[c].result.code = JStr(calls[c].inviteId)

\* C9 amended: the code of every result is the code member of the upstream body.
C9_CodeIsUpstreamCode ==
    \A c \in DOMAIN calls :
        calls[c].pc = "done" =>
            /\ calls[c].result.code.t = "string"
            /\ calls[c].result.code = calls[c].response.body[Member(Root, "code")]

\* C9 witness: a result whose code is not the one the caller supplied.
C9_Witness ==
    \E c \in DOMAIN calls :
        /\ calls[c].pc = "done"
        /\ calls[c].inviteId = "PYTHON"
        /\ calls[c].result.code = JStr("python")

\* The bodies with a null expires_at that are well-formed but for changes to
\* hashes and values.
NullExpiryBodies ==
    {b \in Bodies(HashChanges \cup ValueChanges) :
        b[Member(Root, "expires_at")].t = "null"}

\* A well-formed body with a null expires_at is accepted and gives expiresAt null.
NullExpiryAccepted(c) ==
    (Settled(c) /\ Answered(c) /\ calls[c].response.body \in NullExpiryBodies) =>
        /\ calls[c].pc = "done"
        /\ calls[c].result.expiresAt = Null

\* C10 as claimed: null expires_at gives expiresAt null, and expiresAt is a
\* timestamp exactly when expires_at is a string.
C10_TimestampIffString ==
    \A c \in DOMAIN calls :
        /\ NullExpiryAccepted(c)
        /\ calls[c].pc = "done" =>
            (calls[c].result.expiresAt.t = "Date"
                <=> calls[c].response.body[Member(Root, "expires_at")].t = "string")

\* C10 amended: null expires_at is accepted and gives expiresAt null; expiresAt
\* is a Date exactly when expires_at is a non-empty string (the Date of that
\* string), and null otherwise, the empty string included.
C10_TimestampIffNonEmptyString ==
    \A c \in DOMAIN calls :
        /\ NullExpiryAccepted(c)
        /\ calls[c].pc = "done" =>
            LET e == calls[c].response.body[Member(Root, "expires_at")]
                expiresAt == calls[c].result.expiresAt
            IN  /\ expiresAt.t = "Date" <=> (e.t = "string" /\ e.s # "")
                /\ expiresAt.t # "Date" => expiresAt = Null
                /\ e.s = "2025-01-01T00:00:00.000Z" => expiresAt.time = 1735689600

\* C10 witness: a result from an empty expires_at, with expiresAt null.
C10_Witness ==
    \E c \in DOMAIN calls :
        /\ calls[c].pc = "done"
        /\ calls[c].response.body[Member(Root, "expires_at")] = JStr("")
        /\ calls[c].result.expiresAt = Null

\* C11: in every result with an inviter, globalName is a string, never null:
\* the empty string when the body's global_name is null, and the body's
\* global_name when that is a string.
C11_GlobalNameIsString ==
    \A c \in DOMAIN calls :
        (calls[c].pc = "done" /\ calls[c].result.inviter.t = "object") =>
            LET name == calls[c].response.body[P("inviter", "global_name")]
                globalName == calls[c].result.inviter.globalName
            IN  /\ globalName.t = "string"
                /\ name.t = "null" => globalName = JStr("")
                /\ name.t = "string" => globalName = name
                /\ name.t \in {"null", "string"}

\* C11 witness: a result from a body whose global_name is null, with the empty
\* string as globalName.
C11_Witness ==
    \E c \in DOMAIN calls :
        /\ calls[c].pc = "done"
        /\ calls[c].response.body[P("inviter", "global_name")] = JNull
        /\ calls[c].result.inviter.globalName = JStr("")

\* What C12 expects of a static locator built from strings: the extension
\* asked for or png, and the size suffix for a requested (positive) size.
ExpectedStaticUrl(loc, args) ==
    LET ext == IF args.extension.t = "undefined" THEN "png" ELSE args.extension.s
        suffix == IF args.size.t = "number" /\ args.size.n > 0
                  THEN "?size=" \o ToString(args.size.n) ELSE ""
    IN  "https://cdn.discordapp.com/" \o loc.mediaType \o "/" \o loc.userId.s \o "/"
            \o loc.ressourceId.s \o "." \o ext \o suffix

StaticInvocations == {i \in DOMAIN inv : inv[i].slot \in StaticSlots}

\* C12: an invocation of a static locator returns at once
\* <CDN>/<category>/<owner>/<hash>.<extension, png by default>, followed by
\* ?size=<n> exactly when a size n > 0 was requested; two invocations of the
\* same locator with the same arguments return the same URL; and no request
\* is issued for it.
C12_StaticUrlIsPure ==
    /\ cdn = <<>>
    /\ \A i \in StaticInvocations :
        LET loc == Slot(calls[inv[i].call].result, inv[i].slot) IN
        /\ inv[i].pc = "done"
        /\ loc.ressourceId.t = "string" =>
                inv[i].url = ExpectedStaticUrl(loc, inv[i].args)
        /\ \A j \in StaticInvocations :
                (Slot(calls[inv[j].call].result, inv[j].slot) = loc
                    /\ inv[j].args = inv[i].args) => inv[j].url = inv[i].url

\* C12 witness: two invocations of the guild icon locator with the same size
\* and extension, and the same URL twice.
C12_Witness ==
    /\ Len(inv) = 2
    /\ inv[1].slot = "guild.icon" /\ inv[2].slot = "guild.icon"
    /\ inv[1].args = [size |-> JNum(128), extension |-> JStr("webp")]
    /\ inv[2].args = inv[1].args
    /\ inv[1].url = "https://cdn.discordapp.com/icons/G1/icon1.webp?size=128"
    /\ inv[2].url = inv[1].url

\* No request was issued by anything.
NoNetworkActivity ==
    /\ \A c \in DOMAIN calls : calls[c].requests = <<>>
    /\ cdn = <<>>
    /\ checks = <<>>

\* `url` is `prefix`, then a code of one or more characters of the class,
\* then `suffix`; IdOf is that code.
HasShape(url, prefix, suffix) ==
    /\ Len(url) > Len(prefix) + Len(suffix)
    /\ SubSeq(url, 1, Len(prefix)) = prefix
    /\ SubSeq(url, Len(url) - Len(suffix) + 1, Len(url)) = suffix
    /\ \A k \in (Len(prefix) + 1)..(Len(url) - Len(suffix)) : url[k] \in IdChars

IdOf(url, prefix, suffix) == SubSeq(url, Len(prefix) + 1, Len(url) - Len(suffix))

\* https://discord.gg/{id} and https://discord.com/invite/{id}
TwoShapes == {Https \o DiscordGg \o Slash, Https \o DiscordComInvite \o Slash}

\* The same with www. before the host.
WwwShapes == {Https \o Www \o DiscordGg \o Slash, Https \o Www \o DiscordComInvite \o Slash}

C14_AlwaysABoolean ==
    \A i \in DOMAIN checks :
        /\ checks[i].requests = <<[url |-> checks[i].url, method |-> "HEAD"]>>
        /\ checks[i].pc \in {"fetch", "resolved"}
        /\ checks[i].pc = "resolved" =>
            /\ checks[i].result \in {JBool(TRUE), JBool(FALSE)}
            /\ checks[i].result = JBool(TRUE) <=>
                    (checks[i].status >= 200 /\ checks[i].status <= 299)
            /\ checks[i].status = 0 <=> checks[i].logged = 1

\* C14 witness: of two calls, one resolved with false after a transport failure
\* and one with true after a 204.
C14_Witness ==
    \E i, j \in DOMAIN checks :
        /\ checks[i].pc = "resolved" /\ checks[i].status = 0
        /\ checks[i].result = JBool(FALSE)
        /\ checks[j].pc = "resolved" /\ checks[j].status = 204
        /\ checks[j].result = JBool(TRUE)

\* C15: once response.json() has settled on a 2xx answer whose body is no
\* JSON, the call has failed with the decode error: the body was not
\* validated, nothing was transformed and there is no result.
C15_DecodeFailureIsFatal ==
    \A c \in DOMAIN calls :
        LET r == calls[c].response IN
        (r.status >= 200 /\ r.status <= 299 /\ ~r.json /\ calls[c].pc # "json") =>
            /\ calls[c].pc = "failed"
            /\ calls[c].error.name = "SyntaxError"
            /\ calls[c].decodes = 1
            /\ calls[c].validations = 0
            /\ calls[c].conversions = 0
            /\ calls[c].data = Absent
            /\ calls[c].result = Null

\* C15 witness: a 200 answer that is no JSON, and the call failed undecoded.
C15_Witness ==
    \E c \in DOMAIN calls :
        /\ calls[c].pc = "failed"
        /\ calls[c].response.status = 200
        /\ ~calls[c].response.json
        /\ calls[c].error.name = "SyntaxError"

\* What a settled call ends with, given the answer to its own request: the
\* transport error without an answer, the status error on a status outside
\* 200-299, the decode error on a body that is no JSON, the validation error
\* on a body that fails the schema, and else the transformed body.
OutcomeOf(r) ==
    CASE r.status = 0 ->
            [pc |-> "failed", result |-> Null,
             error |-> [name |-> "TypeError", message |-> "fetch failed"]]
      [] r.status # 0 /\ (r.status < 200 \/ r.status > 299) ->
            [pc |-> "failed", result |-> Null,
             error |-> [name |-> "Error",
                        message |-> "Failed to fetch invite status: " \o r.statusText]]
      [] OTHER ->
            IF ~r.json
            THEN [pc |-> "failed", result |-> Null,
                  error |-> [name |-> "SyntaxError", message |-> "Unexpected token"]]
            ELSE IF Issues(r.body) # {}
            THEN [pc |-> "failed", result |-> Null,
                  error |-> [name |-> "Error",
                             message |-> "Invalid data structure: "
                                            \o (CHOOSE p \in Issues(r.body) : TRUE)]]
            ELSE [pc |-> "done", result |-> convertInviteStatusV9(safeParseData(r.body)),
                  error |-> [name |-> "", message |-> ""]]

\* The calls have different codes, and each has issued the request of its own.
OwnRequests ==
    \A c \in DOMAIN calls :
        /\ calls[c].pc # "idle" =>
            /\ calls[c].requests = << [url |-> InviteUrl(calls[c].inviteId),
                                        method |-> "GET"] >>
            /\ \A d \in DOMAIN calls \ {c} : calls[d].inviteId # calls[c].inviteId

\* The outcome of every settled call is the one its own answer gives.
OwnOutcome ==
    \A c \in DOMAIN calls :
        Settled(c) =>
            [pc |-> calls[c].pc, result |-> calls[c].result, error |-> calls[c].error]
                = OutcomeOf(calls[c].response)

\* A step changes the record of one call and nothing else.
OneCallPerStep ==
    /\ \A c, d \in DOMAIN calls :
            (c # d /\ calls[c]' # calls[c]) => calls[d]' = calls[d]
    /\ UNCHANGED <<inv, cdn, extraction, checks>>

\* C16: with two lookups of different codes in flight, under every
\* interleaving of their steps, each call issues its own request, each step
\* changes the state of one call only and of nothing the calls share, and the
\* result or error of each call is the one the answer to its own request gives.
C16_CallsAreIndependent ==
    /\ [](OwnRequests /\ OwnOutcome)
    /\ [][OneCallPerStep]_vars

\* C16 witness: call 1 is done with one invite while call 2, answered with
\* another body, has not yet been validated; later call 2 fails on its own body.
C16_Witness ==
    /\ calls[1].pc = "done"
    /\ calls[1].inviteId = "PYTHON"
    /\ calls[1].result.code = JStr("python")
    /\ calls[2].pc = "json"
    /\ calls[2].inviteId = "abc123"
    /\ calls[2].response.body = With(WellFormed, {Set(Member(Root, "code"), JUndef)})

\* The body without the members the schema does not name.
Strip(body) == [p \in Paths |-> IF p \in ExtraPaths THEN JUndef ELSE body[p]]

HasExtras(body) == \E p \in ExtraPaths : body[p].t # "undefined"

\* C17: members the schema does not name (in the body, its inviter, guild,
\* channel or profile) change nothing: the body is accepted exactly when the
\* body without them is, and then the result is the result of the body without
\* them.
C17_ExtraFieldsIgnored ==
    \A c \in DOMAIN calls :
        (Settled(c) /\ Answered(c)) =>
            LET bare == Strip(calls[c].response.body) IN
            /\ calls[c].pc = "done" <=> safeParseSuccess(bare)
            /\ calls[c].pc = "done" =>
                /\ calls[c].data = safeParseData(bare)
                /\ \A p \in ExtraPaths : calls[c].data[p] = JUndef
                /\ calls[c].result = convertInviteStatusV9(safeParseData(bare))

\* C17 witness: an invite with an unknown member at the top and one in its
\* inviter, and the result of the invite without them.
C17_Witness ==
    \E c \in DOMAIN calls :
        /\ calls[c].pc = "done"
        /\ calls[c].response.body =
                With(WellFormed, { Set(Member(Root, "flags"), JNum(2)),
                                   Set(P("inviter", "premium_type"), JNum(2)) })
        /\ calls[c].result = convertInviteStatusV9(safeParseData(WellFormed))

\* C18: an invocation of an animated locator whose probe failed without a
\* response has rejected and returned no URL; an invocation returns a URL only
\* after a response, and the backup URL only after one with a status outside
\* 200-299.
C18_ProbeFailurePropagates ==
    \A i \in GifInvocations :
        LET loc == Slot(calls[inv[i].call].result, inv[i].slot) IN
        /\ inv[i].status = 0 => (inv[i].pc \in {"probe", "failed"} /\ inv[i].url = "")
        /\ inv[i].pc = "failed" => (inv[i].status = 0 /\ inv[i].url = "")
        /\ inv[i].url # "" =>
            /\ inv[i].pc = "done"
            /\ inv[i].status # 0
            /\ (loc.ressourceId.t = "string"
                    /\ inv[i].url # ExpectedGifUrl(loc, inv[i].args, 200)) =>
                    /\ inv[i].status < 200 \/ inv[i].status > 299
                    /\ inv[i].url = ExpectedGifUrl(loc, inv[i].args, 404)

\* C18 witness: the probe of the inviter's avatar failed without a response,
\* and the invocation rejected without a URL.
C18_Witness ==
    \E i \in DOMAIN inv :
        /\ inv[i].slot = "inviter.avatarGif"
        /\ inv[i].pc = "failed"
        /\ inv[i].url = ""
        /\ Len(cdn) = 1

\* The static slot and the animated slot of each image of a result.
SlotPairs ==
    { <<"guild.icon", "guild.iconGif">>, <<"guild.banner", "guild.bannerGif">>,
      <<"inviter.avatar", "inviter.avatarGif">>,
      <<"inviter.banner", "inviter.bannerGif">> }

\* The static and the animated locator name the same image: one is null
\* exactly when the other is, and the animated one's backup URL is the static
\* one's URL, for every size and extension.
SameImage(static, animated) ==
    /\ static = Null <=> animated = Null
    /\ (static # Null /\ animated # Null) =>
        \A size \in Sizes, ext \in BackupExtensions :
            ImageGifgetterUrl(animated, [size |-> size, backupExtension |-> ext], 404)
                = ImageGetterUrl(static, [size |-> size, extension |-> ext])

\* C19: in every result, the static and the animated locator of each image
\* (icon, guild banner, avatar, inviter banner) are built from the same hash.
C19_StaticAndGifSameHash ==
    \A c \in DOMAIN calls :
        calls[c].pc = "done" =>
            \A pair \in SlotPairs :
                SameImage(Slot(calls[c].result, pair[1]), Slot(calls[c].result, pair[2]))

\* C20: in every result with an inviter, accentColor is the body's
\* accent_color whenever that is a number, 0 included, and is null only when
\* the body's accent_color is null.
C20_AccentColorKept ==
    \A c \in DOMAIN calls :
        (calls[c].pc = "done" /\ calls[c].result.inviter.t = "object") =>
            LET color == calls[c].response.body[P("inviter", "accent_color")]
                accentColor == calls[c].result.inviter.accentColor
            IN  /\ color.t = "number" => accentColor = color
                /\ accentColor = JNull => color = JNull
====
